---- MODULE Spec2Model ----
(***************************************************************************)
(* A state-machine model of src/Parser.py: the Lexer (a generator that is  *)
(* drained one loop iteration at a time) and the recursive-descent Parser  *)
(* (run as an explicit call stack over a token iterator).                  *)
(***************************************************************************)
EXTENDS Integers, Sequences, FiniteSets, TLC

VARIABLES
    text,           \* Lexer.text, a sequence of one-character strings
    pos,            \* Lexer.pos
    current_char,   \* Lexer.current_char (None past the end)
    yielded,        \* the tokens generate_tokens has yielded so far
    lex_status,     \* "idle" | "running" | "exhausted" | "raised"
    lex_error,      \* the character named by the 'Illegal character' exception
    tokens,         \* the token iterator handed to Parser(...)
    consumed,       \* how many tokens next(self.lexer, None) has taken
    current_token,  \* Parser.current_token
    stack,          \* the Python call stack of the parse, innermost frame last
    ret,            \* the value the last returning call handed back
    outcome,        \* "idle" | "running" | "returned" | "SyntaxError" | "AttributeError"
    error,          \* what the raised SyntaxError's message carries
    ast             \* the ProgramNode parse() returned

lexer_vars == <<text, pos, current_char, yielded, lex_status, lex_error>>
parser_vars == <<tokens, consumed, current_token, stack, ret, outcome, error, ast>>
vars == <<text, pos, current_char, yielded, lex_status, lex_error,
          tokens, consumed, current_token, stack, ret, outcome, error, ast>>

\* ------------------------------------------------------------------ bounds
\* every source over Alphabet of at most this many characters is lexed
MaxTextLen == 3
\* every token sequence over Kinds of at most this many tokens is parsed
MaxTokens == 2
\* every continuation of at most this many tokens follows each opening context
MaxTail == 1

\* ------------------------------------------------------------------ Token
None == "None"

\* Python values are dynamically typed: an int and a str are never equal,
\* so each carries its type.
PyInt(n) == [int |-> n]

PyStr(s) == [str |-> s]

PyList(items) == [list |-> items]

Token(type, value) == [type |-> type, value |-> value]

\* next(self.lexer, None) on an exhausted iterator
NoToken == [type |-> None, value |-> [none |-> None]]

\* Python's None in a node slot (an absent initializer, init or update)
NoneNode == [node |-> "None"]

\* no exception raised
NoError == [expected |-> None, actual |-> None, attribute |-> None]

\* ------------------------------------------------------------------ Lexer
Digits == {"0", "1", "2", "3", "4", "5", "6", "7", "8", "9"}

Letters == {"a", "b", "c", "d", "e", "f", "g", "h", "i", "j", "k", "l", "m",
            "n", "o", "p", "q", "r", "s", "t", "u", "v", "w", "x", "y", "z"}

isspace(c) == c \in {" ", "\n", "\t"}

isdigit(c) == c \in Digits

isalpha(c) == c \in Letters

isalnum(c) == isalpha(c) \/ isdigit(c)

DigitValue(c) ==
    CASE c = "0" -> 0 [] c = "1" -> 1 [] c = "2" -> 2 [] c = "3" -> 3
      [] c = "4" -> 4 [] c = "5" -> 5 [] c = "6" -> 6 [] c = "7" -> 7
      [] c = "8" -> 8 [] c = "9" -> 9

\* int(num_str) for a sequence of decimal digits
RECURSIVE int(_)
int(num_str) ==
    IF num_str = <<>> THEN 0
    ELSE int(SubSeq(num_str, 1, Len(num_str) - 1)) * 10
            + DigitValue(num_str[Len(num_str)])

\* The lexer's own fields, as the helpers pass them along.
LexerAt(p, c) == [pos |-> p, current_char |-> c]

\* Lexer.__init__
NewLexer(t) == LexerAt(0, IF t # <<>> THEN t[1] ELSE None)

\* Lexer.advance
advance(t, L) ==
    LET p == L.pos + 1
    IN  LexerAt(p, IF p < Len(t) THEN t[p + 1] ELSE None)

Yield(L, tok) == [L |-> L, yield |-> <<tok>>, raise |-> None]

RECURSIVE number_loop(_, _, _)
number_loop(t, L, num_str) ==
    IF L.current_char # None /\ isdigit(L.current_char)
    THEN number_loop(t, advance(t, L), Append(num_str, L.current_char))
    ELSE Yield(L, Token("NUMBER", PyInt(int(num_str))))

\* Lexer.generate_number
generate_number(t, L) == number_loop(t, L, <<>>)

\* the keyword chain of generate_identifier
keyword(id_str) ==
    CASE id_str = "var" -> Token("VAR", PyStr(id_str))
      [] id_str = "function" -> Token("FUNCTION", PyStr(id_str))
      [] id_str = "return" -> Token("RETURN", PyStr(id_str))
      [] id_str = "if" -> Token("IF", PyStr(id_str))
      [] id_str = "else" -> Token("ELSE", PyStr(id_str))
      [] id_str = "while" -> Token("WHILE", PyStr(id_str))
      [] id_str = "for" -> Token("FOR", PyStr(id_str))
      [] id_str = "break" -> Token("BREAK", PyStr(id_str))
      [] id_str = "continue" -> Token("CONTINUE", PyStr(id_str))
      [] id_str = "class" -> Token("CLASS", PyStr(id_str))
      [] id_str = "and" -> Token("AND", PyStr("&&"))
      [] id_str = "or" -> Token("OR", PyStr("||"))
      [] OTHER -> Token("ID", PyStr(id_str))

RECURSIVE identifier_loop(_, _, _)
identifier_loop(t, L, id_str) ==
    IF L.current_char # None /\ (isalnum(L.current_char) \/ L.current_char = "_")
    THEN identifier_loop(t, advance(t, L), id_str \o L.current_char)
    ELSE Yield(L, keyword(id_str))

\* Lexer.generate_identifier
generate_identifier(t, L) == identifier_loop(t, L, "")

RECURSIVE string_loop(_, _, _)
string_loop(t, L, string) ==
    IF L.current_char # None /\ L.current_char # "\""
    THEN string_loop(t, advance(t, L), string \o L.current_char)
    ELSE Yield(advance(t, L), Token("STRING", PyStr(string)))

\* generate_string raising when the input ends before the closing quote
generate_string_closed(t, L) ==
    LET r == string_loop(t, advance(t, L), "")
    IN  IF r.L.pos > Len(t)
        THEN [L |-> r.L, yield |-> <<>>, raise |-> "\""]
        ELSE r

\* Lexer.generate_string
generate_string(t, L) == string_loop(t, advance(t, L), "")

\* the one-character tokens of generate_tokens
single(c) ==
    CASE c = "+" -> "ADD" [] c = "-" -> "SUB" [] c = "*" -> "MUL"
      [] c = "/" -> "DIV" [] c = "%" -> "MOD" [] c = "(" -> "LPAREN"
      [] c = ")" -> "RPAREN" [] c = "{" -> "LBRACE" [] c = "}" -> "RBRACE"
      [] c = ";" -> "SEMICOLON" [] c = "," -> "COMMA"

Singles == {"+", "-", "*", "/", "%", "(", ")", "{", "}", ";", ","}

\* the operators read with one character of lookahead: <<short, long>>
lookahead_kinds(c) ==
    CASE c = "=" -> <<"ASSIGN", "EQ">> [] c = "!" -> <<"NOT", "NEQ">>
      [] c = "<" -> <<"LT", "LTE">> [] c = ">" -> <<"GT", "GTE">>

Lookaheads == {"=", "!", "<", ">"}

\* the lookahead branches taking the character after the operator with it
generate_lookahead_greedy(t, L) ==
    LET c == L.current_char
        L1 == advance(t, L)
    IN  IF L1.current_char = "="
        THEN Yield(advance(t, L1), Token(lookahead_kinds(c)[2], PyStr(c \o "=")))
        ELSE Yield(advance(t, L1), Token(lookahead_kinds(c)[1], PyStr(c)))

\* the branches for '=', '!', '<', '>'
generate_lookahead(t, L) ==
    LET c == L.current_char
        L1 == advance(t, L)
    IN  IF L1.current_char = "="
        THEN Yield(advance(t, L1), Token(lookahead_kinds(c)[2], PyStr(c \o "=")))
        ELSE Yield(L1, Token(lookahead_kinds(c)[1], PyStr(c)))

\* the branches for '+', '-', '*', '/', '%', '(', ')', '{', '}', ';', ','
generate_single(t, L) ==
    Yield(advance(t, L), Token(single(L.current_char), PyStr(L.current_char)))

\* which branch of the if/elif chain of generate_tokens takes character c
branch(c) ==
    CASE isspace(c) -> "space"
      [] isdigit(c) -> "number"
      [] isalpha(c) \/ c = "_" -> "identifier"
      [] c = "\"" -> "string"
      [] c \in Singles -> "single"
      [] c \in Lookaheads -> "lookahead"
      [] OTHER -> "illegal"

\* generate_tokens stepping over a character no branch takes
dispatch_skipping(t, L) ==
    LET b == branch(L.current_char)
    IN  CASE b \in {"space", "illegal"} ->
                [L |-> advance(t, L), yield |-> <<>>, raise |-> None]
          [] b = "number" -> generate_number(t, L)
          [] b = "identifier" -> generate_identifier(t, L)
          [] b = "string" -> generate_string(t, L)
          [] b = "single" -> generate_single(t, L)
          [] b = "lookahead" -> generate_lookahead(t, L)

\* one iteration of the while loop of generate_tokens, current_char not None
dispatch(t, L) ==
    LET b == branch(L.current_char)
    IN  CASE b = "space" -> [L |-> advance(t, L), yield |-> <<>>, raise |-> None]
          [] b = "number" -> generate_number(t, L)
          [] b = "identifier" -> generate_identifier(t, L)
          [] b = "string" -> generate_string(t, L)
          [] b = "single" -> generate_single(t, L)
          [] b = "lookahead" -> generate_lookahead(t, L)
          [] b = "illegal" -> [L |-> L, yield |-> <<>>, raise |-> L.current_char]

\* list(Lexer(t).generate_tokens()): the tokens, and the character it raised on
RECURSIVE drain(_, _, _)
drain(t, L, acc) ==
    IF L.current_char = None THEN [tokens |-> acc, raise |-> None, pos |-> L.pos]
    ELSE LET r == dispatch(t, L)
         IN  IF r.raise # None
             THEN [tokens |-> acc, raise |-> r.raise, pos |-> L.pos]
             ELSE drain(t, r.L, acc \o r.yield)

generate_tokens(t) == drain(t, NewLexer(t), <<>>)

\* ------------------------------------------------------------ Lexer inputs
Alphabet == {" ", "1", "2", "a", "_", "\"", "@", "#"} \cup Singles \cup Lookaheads

SeqsUpTo(S, n) == UNION {[1..k -> S] : k \in 0..n}

Words == {<<"v", "a", "r">>, <<"f", "u", "n", "c", "t", "i", "o", "n">>,
          <<"r", "e", "t", "u", "r", "n">>, <<"i", "f">>,
          <<"e", "l", "s", "e">>, <<"w", "h", "i", "l", "e">>,
          <<"f", "o", "r">>, <<"b", "r", "e", "a", "k">>,
          <<"c", "o", "n", "t", "i", "n", "u", "e">>,
          <<"c", "l", "a", "s", "s">>, <<"a", "n", "d">>, <<"o", "r">>,
          <<"x", "1", "_">>, <<"1", "0", "9">>, <<"0", "0", "7">>}

Sources ==
    SeqsUpTo(Alphabet, MaxTextLen)
        \cup {w \o s : w \in Words, s \in SeqsUpTo(Alphabet, 1)}
        \cup {s \o w : w \in Words, s \in SeqsUpTo(Alphabet, 1)}
        \cup {<<"v", "a", "r", " ", "x", " ", "=", " ", "5", ";">>,
              <<"2", " ", "+", " ", "3", " ", "*", " ", "4">>,
              <<"a", "<", "=", "b", "\"", "h", "i", " ", "@">>,
              <<"\"", "@", "\"", "1", "#", ";">>}

\* ----------------------------------------------------------- Lexer actions
ParserIdle ==
    /\ tokens = <<>> /\ consumed = 0 /\ current_token = NoToken
    /\ stack = <<>> /\ ret = NoneNode /\ outcome = "idle"
    /\ error = NoError /\ ast = NoneNode

InitLexer ==
    /\ text \in Sources
    /\ pos = NewLexer(text).pos
    /\ current_char = NewLexer(text).current_char
    /\ yielded = <<>>
    /\ lex_status = "running"
    /\ lex_error = None
    /\ ParserIdle

\* one iteration of the while loop of generate_tokens
Iterate ==
    /\ lex_status = "running"
    /\ current_char # None
    /\ \E r \in {dispatch(text, LexerAt(pos, current_char))} :
           /\ pos' = r.L.pos
           /\ current_char' = r.L.current_char
           /\ yielded' = yielded \o r.yield
           /\ lex_error' = r.raise
           /\ lex_status' = IF r.raise # None THEN "raised" ELSE "running"
    /\ UNCHANGED <<text, parser_vars>>

SkipSpace ==
    /\ current_char # None /\ branch(current_char) = "space"
    /\ Iterate

YieldNumber ==
    /\ current_char # None /\ branch(current_char) = "number"
    /\ Iterate

YieldIdentifier ==
    /\ current_char # None /\ branch(current_char) = "identifier"
    /\ Iterate

YieldString ==
    /\ current_char # None /\ branch(current_char) = "string"
    /\ Iterate

YieldSingle ==
    /\ current_char # None /\ branch(current_char) = "single"
    /\ Iterate

YieldLookahead ==
    /\ current_char # None /\ branch(current_char) = "lookahead"
    /\ Iterate

RaiseIllegal ==
    /\ current_char # None /\ branch(current_char) = "illegal"
    /\ Iterate

\* the while condition of generate_tokens fails: the generator is exhausted
Exhaust ==
    /\ lex_status = "running"
    /\ current_char = None
    /\ lex_status' = "exhausted"
    /\ UNCHANGED <<text, pos, current_char, yielded, lex_error, parser_vars>>

NextLexer ==
    \/ SkipSpace
    \/ YieldNumber
    \/ YieldIdentifier
    \/ YieldString
    \/ YieldSingle
    \/ YieldLookahead
    \/ RaiseIllegal
    \/ Exhaust


\* --------------------------------------------------------------- AST nodes
ProgramNode(declarations) == [node |-> "Program", declarations |-> declarations]

VariableDeclarationNode(identifier, value) ==
    [node |-> "VariableDeclaration", identifier |-> identifier, value |-> value]

FunctionDeclarationNode(identifier, parameters, body) ==
    [node |-> "FunctionDeclaration", identifier |-> identifier,
     parameters |-> parameters, body |-> body]

ReturnStatementNode(expression) ==
    [node |-> "ReturnStatement", expression |-> expression]

BinaryOpNode(op, left, right) ==
    [node |-> "BinaryOp", op |-> op, left |-> left, right |-> right]

UnaryOpNode(op, operand) == [node |-> "UnaryOp", op |-> op, operand |-> operand]

NumberNode(value) == [node |-> "Number", value |-> value]

StringNode(value) == [node |-> "String", value |-> value]

IdentifierNode(name) == [node |-> "Identifier", name |-> name]

IfStatementNode(condition, if_body, else_body) ==
    [node |-> "IfStatement", condition |-> condition,
     if_body |-> if_body, else_body |-> else_body]

WhileStatementNode(condition, body) ==
    [node |-> "WhileStatement", condition |-> condition, body |-> body]

ForStatementNode(init, condition, update, body) ==
    [node |-> "ForStatement", init |-> init, condition |-> condition,
     update |-> update, body |-> body]

BreakStatementNode == [node |-> "BreakStatement"]

ContinueStatementNode == [node |-> "ContinueStatement"]

\* ------------------------------------------------------------------ Parser
\* The parser's own fields as the rules pass them along, with the exception
\* in flight (raise, error) once one is raised: every later step is skipped.
ParserAt(n, tok) ==
    [consumed |-> n, current_token |-> tok, raise |-> None, error |-> NoError]

Raise(P, exception, message) ==
    IF P.raise # None THEN P
    ELSE [P EXCEPT !.raise = exception, !.error = message]

\* SyntaxError(f'Expected {token_type} but got {self.current_token.type}')
Expected(token_type, actual) ==
    [expected |-> token_type, actual |-> actual, attribute |-> None]

\* SyntaxError(f'Unexpected token: {token.type}')
Unexpected(actual) == [expected |-> None, actual |-> actual, attribute |-> None]

\* AttributeError: the object has no attribute of that name
NoAttribute(name) == [expected |-> None, actual |-> None, attribute |-> name]

\* Parser.advance: self.current_token = next(self.lexer, None)
Parser_advance(ts, P) ==
    IF P.raise # None THEN P
    ELSE IF P.consumed < Len(ts)
         THEN [P EXCEPT !.consumed = @ + 1, !.current_token = ts[P.consumed + 1]]
         ELSE [P EXCEPT !.current_token = NoToken]

\* reading self.current_token.type or .value: None has neither
attr(P, name) ==
    IF P.current_token.type = None
    THEN Raise(P, "AttributeError", NoAttribute(name))
    ELSE P

\* Parser.eat
eat(ts, P, token_type) ==
    IF P.raise # None THEN P
    ELSE IF P.current_token.type # None /\ P.current_token.type = token_type
         THEN Parser_advance(ts, P)
         ELSE LET P1 == attr(P, "type")
              IN  Raise(P1, "SyntaxError", Expected(token_type, P.current_token.type))

\* What one step of a rule does to the call stack: the frames that replace
\* the running frame (none: it returns ret; two: it calls the second).
Frame(fn) == [fn |-> fn, pc |-> "start"]

Return(P, value) == [P |-> P, frames |-> <<>>, ret |-> value]

Call(P, f, callee) ==
    [P |-> P, frames |-> <<f, Frame(callee)>>, ret |-> NoneNode]

TailCall(P, callee) ==
    [P |-> P, frames |-> <<Frame(callee)>>, ret |-> NoneNode]

\* Parser.parse
parse(ts, P, f, r) ==
    CASE f.pc = "start" ->
            Call(Parser_advance(ts, P), [fn |-> "parse", pc |-> "program"], "program")
      [] f.pc = "program" -> Return(P, r)

\* the while loop of Parser.program, from its condition on
program_loop(P, declarations) ==
    IF P.current_token.type # None
    THEN Call(P, [fn |-> "program", pc |-> "append", at |-> P.consumed,
                  declarations |-> declarations], "declaration")
    ELSE Return(P, ProgramNode(declarations))

\* Parser.program
program(ts, P, f, r) ==
    CASE f.pc = "start" -> program_loop(P, <<>>)
      [] f.pc = "append" -> program_loop(P, Append(f.declarations, r))

\* the if/elif chain of Parser.declaration: the rule a token kind selects
rule(type) ==
    CASE type = "VAR" -> "variable_declaration"
      [] type = "FUNCTION" -> "function_declaration"
      [] type = "CLASS" -> "class_declaration"
      [] type = "IF" -> "if_statement"
      [] type = "WHILE" -> "while_statement"
      [] type = "FOR" -> "for_statement"
      [] type = "BREAK" -> "break_statement"
      [] type = "CONTINUE" -> "continue_statement"
      [] OTHER -> "expression"

\* the methods class Parser defines
Methods == {"parse", "advance", "eat", "program", "declaration",
            "variable_declaration", "function_declaration", "parameters",
            "expression", "expression_logical", "expression_relational",
            "expression_additive", "expression_multiplicative",
            "expression_unary", "primary", "if_statement", "while_statement",
            "for_statement", "break_statement", "continue_statement"}

\* Parser.declaration
declaration(ts, P, f, r) ==
    LET P1 == attr(P, "type")
        callee == rule(P.current_token.type)
    IN  IF callee \in Methods
        THEN TailCall(P1, callee)
        ELSE Return(Raise(P1, "AttributeError", NoAttribute(callee)), NoneNode)

\* variable_declaration reading an initializer whether or not '=' is there
variable_declaration_lenient(ts, P, f, r) ==
    CASE f.pc = "start" ->
            LET P1 == eat(ts, P, "VAR")
                P2 == attr(P1, "value")
                identifier == P2.current_token.value
                P3 == eat(ts, P2, "ID")
                P4 == attr(P3, "type")
                P5 == IF P4.current_token.type = "ASSIGN"
                      THEN eat(ts, P4, "ASSIGN") ELSE P4
            IN  IF P4.current_token.type # "SEMICOLON"
                THEN Call(P5, [fn |-> "variable_declaration", pc |-> "value",
                               identifier |-> identifier], "expression")
                ELSE Return(eat(ts, P4, "SEMICOLON"),
                            VariableDeclarationNode(identifier, NoneNode))
      [] f.pc = "value" ->
            Return(eat(ts, P, "SEMICOLON"),
                   VariableDeclarationNode(f.identifier, r))

\* Parser.variable_declaration
variable_declaration(ts, P, f, r) ==
    CASE f.pc = "start" ->
            LET P1 == eat(ts, P, "VAR")
                P2 == attr(P1, "value")
                identifier == P2.current_token.value
                P3 == eat(ts, P2, "ID")
                P4 == attr(P3, "type")
            IN  IF P4.current_token.type = "ASSIGN"
                THEN Call(eat(ts, P4, "ASSIGN"),
                          [fn |-> "variable_declaration", pc |-> "value",
                           identifier |-> identifier], "expression")
                ELSE Return(eat(ts, P4, "SEMICOLON"),
                            VariableDeclarationNode(identifier, NoneNode))
      [] f.pc = "value" ->
            Return(eat(ts, P, "SEMICOLON"),
                   VariableDeclarationNode(f.identifier, r))

\* a block body: while self.current_token.type != 'RBRACE': append(declaration())
\* f is the frame to resume in after the declaration, done what follows the loop
block_loop(P, f, done) ==
    LET P1 == attr(P, "type")
    IN  IF P1.current_token.type # "RBRACE"
        THEN Call(P1, [f EXCEPT !.at = P.consumed], "declaration")
        ELSE done

\* Parser.function_declaration
function_loop(ts, P, f) ==
    block_loop(P, f,
        Return(eat(ts, attr(P, "type"), "RBRACE"),
               FunctionDeclarationNode(f.identifier, f.parameters, f.body)))

function_declaration(ts, P, f, r) ==
    CASE f.pc = "start" ->
            LET P1 == eat(ts, P, "FUNCTION")
                P2 == attr(P1, "value")
                identifier == P2.current_token.value
                P3 == eat(ts, P2, "ID")
                P4 == eat(ts, P3, "LPAREN")
            IN  Call(P4, [fn |-> "function_declaration", pc |-> "parameters",
                          identifier |-> identifier], "parameters")
      [] f.pc = "parameters" ->
            LET P1 == eat(ts, P, "RPAREN")
                P2 == eat(ts, P1, "LBRACE")
            IN  function_loop(ts, P2,
                    [fn |-> "function_declaration", pc |-> "body", at |-> 0,
                     identifier |-> f.identifier, parameters |-> r.list,
                     body |-> <<>>])
      [] f.pc = "body" ->
            function_loop(ts, P, [f EXCEPT !.body = Append(@, r)])

\* the while loop of Parser.parameters
RECURSIVE parameters_loop(_, _, _)
parameters_loop(ts, P, parameters) ==
    LET P1 == attr(P, "type")
    IN  IF P1.raise = None /\ P1.current_token.type = "COMMA"
        THEN LET P2 == eat(ts, P1, "COMMA")
                 P3 == attr(P2, "value")
                 P4 == eat(ts, P3, "ID")
             IN  parameters_loop(ts, P4, Append(parameters, P3.current_token.value))
        ELSE Return(P1, PyList(parameters))

\* Parser.parameters
parameters(ts, P, f, r) ==
    LET P1 == attr(P, "type")
    IN  IF P1.current_token.type # "RPAREN"
        THEN parameters_loop(ts, eat(ts, P1, "ID"), <<P1.current_token.value>>)
        ELSE Return(P1, PyList(<<>>))

\* Parser.expression
expression(ts, P, f, r) == TailCall(P, "expression_logical")

\* the fold with its operands exchanged
fold_exchanged(op, node, right) == BinaryOpNode(op, right, node)

\* building the node of a binary operator from the loop's operands
fold(op, node, right) == BinaryOpNode(op, node, right)

\* the while loop shared by the four binary levels, from its condition on
binary_loop(ts, P, fn, ops, operand, node) ==
    LET P1 == attr(P, "type")
    IN  IF P1.current_token.type \in ops
        THEN Call(Parser_advance(ts, P1),
                  [fn |-> fn, pc |-> "right", op |-> P1.current_token.type,
                   node |-> node], operand)
        ELSE Return(P1, node)

\* one binary level: node = operand(); while type in ops: fold in operand()
binary_level(ts, P, f, r, fn, ops, operand) ==
    CASE f.pc = "start" -> Call(P, [fn |-> fn, pc |-> "node"], operand)
      [] f.pc = "node" -> binary_loop(ts, P, fn, ops, operand, r)
      [] f.pc = "right" ->
            binary_loop(ts, P, fn, ops, operand, fold(f.op, f.node, r))

\* Parser.expression_logical
expression_logical(ts, P, f, r) ==
    binary_level(ts, P, f, r, "expression_logical", {"AND", "OR"},
                 "expression_relational")

\* Parser.expression_relational
expression_relational(ts, P, f, r) ==
    binary_level(ts, P, f, r, "expression_relational",
                 {"LT", "LTE", "GT", "GTE", "EQ", "NEQ"}, "expression_additive")

\* Parser.expression_additive
expression_additive(ts, P, f, r) ==
    binary_level(ts, P, f, r, "expression_additive", {"ADD", "SUB"},
                 "expression_multiplicative")

\* Parser.expression_multiplicative
expression_multiplicative(ts, P, f, r) ==
    binary_level(ts, P, f, r, "expression_multiplicative",
                 {"MUL", "DIV", "MOD"}, "expression_unary")

\* Parser.expression_unary
expression_unary(ts, P, f, r) ==
    CASE f.pc = "start" ->
            LET P1 == attr(P, "type")
            IN  IF P1.current_token.type \in {"ADD", "SUB", "NOT"}
                THEN Call(Parser_advance(ts, P1),
                          [fn |-> "expression_unary", pc |-> "operand",
                           op |-> P1.current_token.type], "expression_unary")
                ELSE TailCall(P1, "primary")
      [] f.pc = "operand" -> Return(P, UnaryOpNode(f.op, r))

\* primary taking 'return' as the start of a return statement
primary_with_return(ts, P, f, r) ==
    CASE f.pc = "start" ->
            LET token == P.current_token
                P1 == attr(P, "type")
            IN  CASE token.type = "NUMBER" ->
                        Return(eat(ts, P1, "NUMBER"), NumberNode(token.value))
                  [] token.type = "STRING" ->
                        Return(eat(ts, P1, "STRING"), StringNode(token.value))
                  [] token.type = "ID" ->
                        Return(eat(ts, P1, "ID"), IdentifierNode(token.value))
                  [] token.type = "LPAREN" ->
                        Call(eat(ts, P1, "LPAREN"),
                             [fn |-> "primary", pc |-> "expr"], "expression")
                  [] token.type = "RETURN" ->
                        Call(eat(ts, P1, "RETURN"),
                             [fn |-> "primary", pc |-> "return"], "expression")
                  [] OTHER ->
                        Return(Raise(P1, "SyntaxError", Unexpected(token.type)),
                               NoneNode)
      [] f.pc = "expr" -> Return(eat(ts, P, "RPAREN"), r)
      [] f.pc = "return" ->
            Return(eat(ts, P, "SEMICOLON"), ReturnStatementNode(r))

\* primary returning None, not raising, at a token that starts no expression
primary_silent(ts, P, f, r) ==
    CASE f.pc = "start" ->
            LET token == P.current_token
                P1 == attr(P, "type")
            IN  CASE token.type = "NUMBER" ->
                        Return(eat(ts, P1, "NUMBER"), NumberNode(token.value))
                  [] token.type = "STRING" ->
                        Return(eat(ts, P1, "STRING"), StringNode(token.value))
                  [] token.type = "ID" ->
                        Return(eat(ts, P1, "ID"), IdentifierNode(token.value))
                  [] token.type = "LPAREN" ->
                        Call(eat(ts, P1, "LPAREN"),
                             [fn |-> "primary", pc |-> "expr"], "expression")
                  [] OTHER -> Return(P1, NoneNode)
      [] f.pc = "expr" -> Return(eat(ts, P, "RPAREN"), r)

\* Parser.primary
primary(ts, P, f, r) ==
    CASE f.pc = "start" ->
            LET token == P.current_token
                P1 == attr(P, "type")
            IN  CASE token.type = "NUMBER" ->
                        Return(eat(ts, P1, "NUMBER"), NumberNode(token.value))
                  [] token.type = "STRING" ->
                        Return(eat(ts, P1, "STRING"), StringNode(token.value))
                  [] token.type = "ID" ->
                        Return(eat(ts, P1, "ID"), IdentifierNode(token.value))
                  [] token.type = "LPAREN" ->
                        Call(eat(ts, P1, "LPAREN"),
                             [fn |-> "primary", pc |-> "expr"], "expression")
                  [] OTHER ->
                        Return(Raise(P1, "SyntaxError", Unexpected(token.type)),
                               NoneNode)
      [] f.pc = "expr" -> Return(eat(ts, P, "RPAREN"), r)

\* the else part of Parser.if_statement, from its second block loop on
else_loop(ts, P, f) ==
    block_loop(P, f,
        Return(eat(ts, attr(P, "type"), "RBRACE"),
               IfStatementNode(f.condition, f.if_body, f.else_body)))

\* Parser.if_statement from its first block loop on
if_loop(ts, P, f) ==
    block_loop(P, f,
        LET P1 == eat(ts, attr(P, "type"), "RBRACE")
            P2 == attr(P1, "type")
        IN  IF P2.current_token.type = "ELSE"
            THEN LET P3 == eat(ts, P2, "ELSE")
                     P4 == eat(ts, P3, "LBRACE")
                 IN  else_loop(ts, P4, [f EXCEPT !.pc = "else_body"])
            ELSE Return(P2, IfStatementNode(f.condition, f.if_body, f.else_body)))

\* Parser.if_statement
if_statement(ts, P, f, r) ==
    CASE f.pc = "start" ->
            LET P1 == eat(ts, P, "IF")
                P2 == eat(ts, P1, "LPAREN")
            IN  Call(P2, [fn |-> "if_statement", pc |-> "condition"], "expression")
      [] f.pc = "condition" ->
            LET P1 == eat(ts, P, "RPAREN")
                P2 == eat(ts, P1, "LBRACE")
            IN  if_loop(ts, P2,
                    [fn |-> "if_statement", pc |-> "if_body", at |-> 0,
                     condition |-> r, if_body |-> <<>>, else_body |-> <<>>])
      [] f.pc = "if_body" -> if_loop(ts, P, [f EXCEPT !.if_body = Append(@, r)])
      [] f.pc = "else_body" ->
            else_loop(ts, P, [f EXCEPT !.else_body = Append(@, r)])

\* Parser.while_statement from its block loop on
while_loop(ts, P, f) ==
    block_loop(P, f,
        Return(eat(ts, attr(P, "type"), "RBRACE"),
               WhileStatementNode(f.condition, f.body)))

\* Parser.while_statement
while_statement(ts, P, f, r) ==
    CASE f.pc = "start" ->
            LET P1 == eat(ts, P, "WHILE")
                P2 == eat(ts, P1, "LPAREN")
            IN  Call(P2, [fn |-> "while_statement", pc |-> "condition"],
                     "expression")
      [] f.pc = "condition" ->
            LET P1 == eat(ts, P, "RPAREN")
                P2 == eat(ts, P1, "LBRACE")
            IN  while_loop(ts, P2,
                    [fn |-> "while_statement", pc |-> "body", at |-> 0,
                     condition |-> r, body |-> <<>>])
      [] f.pc = "body" -> while_loop(ts, P, [f EXCEPT !.body = Append(@, r)])

\* Parser.for_statement from its block loop on
for_loop(ts, P, f) ==
    block_loop(P, f,
        Return(eat(ts, attr(P, "type"), "RBRACE"),
               ForStatementNode(f.init, f.condition, f.update, f.body)))

\* Parser.for_statement from self.eat('RPAREN') on
for_block(ts, P, init, condition, update) ==
    LET P1 == eat(ts, P, "RPAREN")
        P2 == eat(ts, P1, "LBRACE")
    IN  for_loop(ts, P2,
            [fn |-> "for_statement", pc |-> "body", at |-> 0, init |-> init,
             condition |-> condition, update |-> update, body |-> <<>>])

\* Parser.for_statement
for_statement(ts, P, f, r) ==
    CASE f.pc = "start" ->
            LET P1 == eat(ts, P, "FOR")
                P2 == eat(ts, P1, "LPAREN")
                P3 == attr(P2, "type")
            IN  IF P3.current_token.type = "VAR"
                THEN Call(P3, [fn |-> "for_statement", pc |-> "init"],
                          "declaration")
                ELSE Call(P3, [fn |-> "for_statement", pc |-> "condition",
                               init |-> NoneNode], "expression")
      [] f.pc = "init" ->
            Call(P, [fn |-> "for_statement", pc |-> "condition", init |-> r],
                 "expression")
      [] f.pc = "condition" ->
            LET P1 == eat(ts, P, "SEMICOLON")
                P2 == attr(P1, "type")
            IN  IF P2.current_token.type # "RPAREN"
                THEN Call(P2, [fn |-> "for_statement", pc |-> "update",
                               init |-> f.init, condition |-> r], "expression")
                ELSE for_block(ts, P2, f.init, r, NoneNode)
      [] f.pc = "update" -> for_block(ts, P, f.init, f.condition, r)
      [] f.pc = "body" -> for_loop(ts, P, [f EXCEPT !.body = Append(@, r)])

\* Parser.break_statement
break_statement(ts, P, f, r) ==
    Return(eat(ts, eat(ts, P, "BREAK"), "SEMICOLON"), BreakStatementNode)

\* Parser.continue_statement
continue_statement(ts, P, f, r) ==
    Return(eat(ts, eat(ts, P, "CONTINUE"), "SEMICOLON"), ContinueStatementNode)

\* ----------------------------------------------------------- Parser inputs
Keywords == {"VAR", "FUNCTION", "RETURN", "IF", "ELSE", "WHILE", "FOR",
             "BREAK", "CONTINUE", "CLASS"}

Operators == {"ADD", "SUB", "MUL", "DIV", "MOD", "ASSIGN", "EQ", "NEQ", "NOT",
              "LT", "LTE", "GT", "GTE", "AND", "OR", "LPAREN", "RPAREN",
              "LBRACE", "RBRACE", "SEMICOLON", "COMMA"}

Kinds == {"NUMBER", "STRING", "ID"} \cup Keywords \cup Operators

\* a token of each kind, as the lexer yields it
Tok(kind) ==
    CASE kind = "NUMBER" -> Token(kind, PyInt(1))
      [] kind = "STRING" -> Token(kind, PyStr("s"))
      [] kind = "ID" -> Token(kind, PyStr("x"))
      [] kind = "VAR" -> Token(kind, PyStr("var"))
      [] kind = "FUNCTION" -> Token(kind, PyStr("function"))
      [] kind = "RETURN" -> Token(kind, PyStr("return"))
      [] kind = "IF" -> Token(kind, PyStr("if"))
      [] kind = "ELSE" -> Token(kind, PyStr("else"))
      [] kind = "WHILE" -> Token(kind, PyStr("while"))
      [] kind = "FOR" -> Token(kind, PyStr("for"))
      [] kind = "BREAK" -> Token(kind, PyStr("break"))
      [] kind = "CONTINUE" -> Token(kind, PyStr("continue"))
      [] kind = "CLASS" -> Token(kind, PyStr("class"))
      [] kind = "AND" -> Token(kind, PyStr("&&"))
      [] kind = "OR" -> Token(kind, PyStr("||"))
      [] kind = "ADD" -> Token(kind, PyStr("+"))
      [] kind = "SUB" -> Token(kind, PyStr("-"))
      [] kind = "MUL" -> Token(kind, PyStr("*"))
      [] kind = "DIV" -> Token(kind, PyStr("/"))
      [] kind = "MOD" -> Token(kind, PyStr("%"))
      [] kind = "ASSIGN" -> Token(kind, PyStr("="))
      [] kind = "EQ" -> Token(kind, PyStr("=="))
      [] kind = "NEQ" -> Token(kind, PyStr("!="))
      [] kind = "NOT" -> Token(kind, PyStr("!"))
      [] kind = "LT" -> Token(kind, PyStr("<"))
      [] kind = "LTE" -> Token(kind, PyStr("<="))
      [] kind = "GT" -> Token(kind, PyStr(">"))
      [] kind = "GTE" -> Token(kind, PyStr(">="))
      [] kind = "LPAREN" -> Token(kind, PyStr("("))
      [] kind = "RPAREN" -> Token(kind, PyStr(")"))
      [] kind = "LBRACE" -> Token(kind, PyStr("{"))
      [] kind = "RBRACE" -> Token(kind, PyStr("}"))
      [] kind = "SEMICOLON" -> Token(kind, PyStr(";"))
      [] kind = "COMMA" -> Token(kind, PyStr(","))

Toks(kinds) == [i \in 1..Len(kinds) |-> Tok(kinds[i])]

\* the operator sets of the four binary levels
Levels == {{"AND", "OR"}, {"LT", "LTE", "GT", "GTE", "EQ", "NEQ"},
           {"ADD", "SUB"}, {"MUL", "DIV", "MOD"}}

\* the operands tried in each of the three places of a chain
Operands ==
    <<{Token("ID", PyStr("a")), Token("NUMBER", PyInt(1))},
      {Token("ID", PyStr("b")), Token("STRING", PyStr("s"))},
      {Token("ID", PyStr("c")), Token("NUMBER", PyInt(3))}>>

\* var x = a op1 b op2 c ;
Chain(a, op1, b, op2, c) ==
    Toks(<<"VAR", "ID", "ASSIGN">>) \o <<a, Tok(op1), b, Tok(op2), c>>
        \o Toks(<<"SEMICOLON">>)

Chains ==
    {Chain(a, op1, b, op2, c) :
        a \in Operands[1], b \in Operands[2], c \in Operands[3],
        op1 \in UNION Levels, op2 \in UNION Levels}

\* a + b * c
Sum(a, b, c) ==
    <<Token("NUMBER", PyInt(a)), Tok("ADD"), Token("NUMBER", PyInt(b)), Tok("MUL"),
      Token("NUMBER", PyInt(c))>>

Sums == {Sum(a, b, c) : a \in 2..4, b \in 2..4, c \in 2..4}

\* for ( var i = E0 ; i rel E ; i = i + E1 ) { }
Loop(e0, rel, e, e1) ==
    Toks(<<"FOR", "LPAREN", "VAR">>)
        \o <<Token("ID", PyStr("i")), Tok("ASSIGN"), e0, Tok("SEMICOLON"),
             Token("ID", PyStr("i")), Tok(rel), e, Tok("SEMICOLON"),
             Token("ID", PyStr("i")), Tok("ASSIGN"), Token("ID", PyStr("i")),
             Tok("ADD"), e1>>
        \o Toks(<<"RPAREN", "LBRACE", "RBRACE">>)

Loops ==
    {Loop(e0, rel, e, e1) :
        e0 \in {Token("NUMBER", PyInt(0)), Token("ID", PyStr("a"))},
        rel \in {"LT", "LTE", "GT", "GTE", "EQ", "NEQ"},
        e \in {Token("NUMBER", PyInt(10)), Token("ID", PyStr("n"))},
        e1 \in {Token("NUMBER", PyInt(1)), Token("ID", PyStr("k"))}}

\* the openings every continuation is tried after
Contexts ==
    {<<"VAR", "ID">>,
     <<"VAR", "ID", "ASSIGN">>,
     <<"VAR", "ID", "NUMBER">>,
     <<"VAR", "ID", "ASSIGN", "NUMBER", "SEMICOLON">>,
     <<"ID", "ADD">>,
     <<"SUB", "NOT", "LPAREN", "ID">>,
     <<"FUNCTION", "ID", "LPAREN">>,
     <<"FUNCTION", "ID", "LPAREN", "ID", "COMMA", "ID">>,
     <<"FUNCTION", "ID", "LPAREN", "ID", "RPAREN", "LBRACE">>,
     <<"FUNCTION", "ID", "LPAREN", "RPAREN", "LBRACE", "BREAK", "SEMICOLON">>,
     <<"IF", "LPAREN", "ID", "LT", "ID", "RPAREN", "LBRACE">>,
     <<"IF", "LPAREN", "ID", "RPAREN", "LBRACE", "CONTINUE", "SEMICOLON", "RBRACE">>,
     <<"IF", "LPAREN", "ID", "RPAREN", "LBRACE", "RBRACE", "ELSE", "LBRACE">>,
     <<"WHILE", "LPAREN", "ID", "RPAREN", "LBRACE">>,
     <<"WHILE", "LPAREN", "ID", "RPAREN", "LBRACE", "VAR", "ID">>,
     <<"WHILE", "LPAREN", "NUMBER", "RPAREN", "LBRACE", "IF", "LPAREN", "ID",
       "RPAREN", "LBRACE">>,
     <<"FOR", "LPAREN">>,
     <<"FOR", "LPAREN", "VAR", "ID", "SEMICOLON", "ID", "SEMICOLON">>,
     <<"FOR", "LPAREN", "ID", "SEMICOLON", "RPAREN", "LBRACE">>,
     <<"FOR", "LPAREN", "ID", "SEMICOLON", "ID", "RPAREN", "LBRACE", "VAR",
       "ID", "SEMICOLON">>}

\* whole programs, each followed by every continuation
Programs ==
    {<<"VAR", "ID", "ASSIGN", "NUMBER", "SEMICOLON", "VAR", "ID", "SEMICOLON">>,
     <<"FUNCTION", "ID", "LPAREN", "ID", "COMMA", "ID", "RPAREN", "LBRACE",
       "VAR", "ID", "ASSIGN", "ID", "ADD", "ID", "SEMICOLON", "RBRACE">>,
     <<"IF", "LPAREN", "ID", "LT", "ID", "RPAREN", "LBRACE", "VAR", "ID",
       "ASSIGN", "NUMBER", "SEMICOLON", "RBRACE", "ELSE", "LBRACE", "VAR",
       "ID", "ASSIGN", "NUMBER", "SEMICOLON", "RBRACE">>,
     <<"WHILE", "LPAREN", "NOT", "ID", "RPAREN", "LBRACE", "BREAK",
       "SEMICOLON", "CONTINUE", "SEMICOLON", "RBRACE">>,
     <<"FOR", "LPAREN", "VAR", "ID", "ASSIGN", "NUMBER", "SEMICOLON", "ID",
       "LT", "NUMBER", "SEMICOLON", "ID", "ADD", "NUMBER", "RPAREN", "LBRACE",
       "RBRACE">>}

TokenInputs ==
    {Toks(s) : s \in SeqsUpTo(Kinds, MaxTokens)}
        \cup {Toks(c \o s) : c \in Contexts \cup Programs,
                             s \in SeqsUpTo(Kinds, MaxTail)}
        \cup {Toks(<<"VAR", "ID", k, "SEMICOLON">>) : k \in Kinds}
        \cup Chains \cup Sums \cup Loops

\* ---------------------------------------------------------- Parser actions
LexerIdle ==
    /\ text = <<>> /\ pos = 0 /\ current_char = None
    /\ yielded = <<>> /\ lex_status = "idle" /\ lex_error = None

\* Parser(iter(tokens)), parse() called
InitParser ==
    /\ tokens \in TokenInputs
    /\ consumed = 0
    /\ current_token = NoToken
    /\ stack = <<Frame("parse")>>
    /\ ret = NoneNode
    /\ outcome = "running"
    /\ error = NoError
    /\ ast = NoneNode
    /\ LexerIdle

Top == stack[Len(stack)]

Running(fn) == outcome = "running" /\ stack # <<>> /\ Top.fn = fn

Self == ParserAt(consumed, current_token)

\* the step's effect: a raised exception unwinds every frame and ends the
\* parse; otherwise the frames replace the running one, and the value the
\* outermost frame returns is what parse() returns.
Commit(step) ==
    \E s \in {step} :
    LET rest == SubSeq(stack, 1, Len(stack) - 1) \o s.frames
    IN  /\ consumed' = s.P.consumed
        /\ current_token' = s.P.current_token
        /\ IF s.P.raise # None
           THEN /\ outcome' = s.P.raise
                /\ error' = s.P.error
                /\ stack' = <<>>
                /\ ret' = NoneNode
                /\ ast' = ast
           ELSE /\ stack' = rest
                /\ ret' = s.ret
                /\ error' = error
                /\ outcome' = IF rest = <<>> THEN "returned" ELSE outcome
                /\ ast' = IF rest = <<>> THEN s.ret ELSE ast
        /\ UNCHANGED <<tokens, lexer_vars>>

Parse ==
    /\ Running("parse")
    /\ Commit(parse(tokens, Self, Top, ret))

Program ==
    /\ Running("program")
    /\ Commit(program(tokens, Self, Top, ret))

Declaration ==
    /\ Running("declaration")
    /\ Commit(declaration(tokens, Self, Top, ret))

VariableDeclaration ==
    /\ Running("variable_declaration")
    /\ Commit(variable_declaration(tokens, Self, Top, ret))

FunctionDeclaration ==
    /\ Running("function_declaration")
    /\ Commit(function_declaration(tokens, Self, Top, ret))

Parameters ==
    /\ Running("parameters")
    /\ Commit(parameters(tokens, Self, Top, ret))

Expression ==
    /\ Running("expression")
    /\ Commit(expression(tokens, Self, Top, ret))

ExpressionLogical ==
    /\ Running("expression_logical")
    /\ Commit(expression_logical(tokens, Self, Top, ret))

ExpressionRelational ==
    /\ Running("expression_relational")
    /\ Commit(expression_relational(tokens, Self, Top, ret))

ExpressionAdditive ==
    /\ Running("expression_additive")
    /\ Commit(expression_additive(tokens, Self, Top, ret))

ExpressionMultiplicative ==
    /\ Running("expression_multiplicative")
    /\ Commit(expression_multiplicative(tokens, Self, Top, ret))

ExpressionUnary ==
    /\ Running("expression_unary")
    /\ Commit(expression_unary(tokens, Self, Top, ret))

Primary ==
    /\ Running("primary")
    /\ Commit(primary(tokens, Self, Top, ret))

IfStatement ==
    /\ Running("if_statement")
    /\ Commit(if_statement(tokens, Self, Top, ret))

WhileStatement ==
    /\ Running("while_statement")
    /\ Commit(while_statement(tokens, Self, Top, ret))

ForStatement ==
    /\ Running("for_statement")
    /\ Commit(for_statement(tokens, Self, Top, ret))

BreakStatement ==
    /\ Running("break_statement")
    /\ Commit(break_statement(tokens, Self, Top, ret))

ContinueStatement ==
    /\ Running("continue_statement")
    /\ Commit(continue_statement(tokens, Self, Top, ret))

NextParser ==
    \/ Parse
    \/ Program
    \/ Declaration
    \/ VariableDeclaration
    \/ FunctionDeclaration
    \/ Parameters
    \/ Expression
    \/ ExpressionLogical
    \/ ExpressionRelational
    \/ ExpressionAdditive
    \/ ExpressionMultiplicative
    \/ ExpressionUnary
    \/ Primary
    \/ IfStatement
    \/ WhileStatement
    \/ ForStatement
    \/ BreakStatement
    \/ ContinueStatement

\* ----------------------------------------------------------- specification
Init == InitLexer \/ InitParser

Next == NextLexer \/ NextParser

Spec == Init /\ [][Next]_vars

\* a running generator or parser always takes its next step
FairSpec == Spec /\ WF_vars(Next)

\* ------------------------------------------------------------------ claims
Finished == outcome \in {"returned", "SyntaxError", "AttributeError"}

Lexed == lex_status \in {"exhausted", "raised"}

\* C1: every parse ends by returning a Program node or by raising a
\* SyntaxError that reports the expected kind and the actual kind (or the
\* end of input); it ends in no other way.
C1_ReturnsOrSyntaxError ==
    Finished =>
        \/ outcome = "returned" /\ ast.node = "Program"
        \/ outcome = "SyntaxError" /\ error.expected \in Kinds
              /\ error.actual \in Kinds \cup {"end of input"}

\* C2: a source that is only a + b * c parses to the Program whose single
\* element is BinaryOp(ADD, Number(a), BinaryOp(MUL, Number(b), Number(c))).
C2_SumParses ==
    (Finished /\ tokens \in Sums) =>
        /\ outcome = "returned"
        /\ ast = ProgramNode(<<BinaryOpNode("ADD", NumberNode(tokens[1].value),
                    BinaryOpNode("MUL", NumberNode(tokens[3].value),
                                 NumberNode(tokens[5].value)))>>)

\* C3: for (var i = E0; C; i = E1) { } parses to a ForStatement whose init
\* is a VariableDeclaration, whose condition is a relational BinaryOp, whose
\* update is the assignment-shaped expression and whose body is empty.
C3_ForParses ==
    (Finished /\ tokens \in Loops) =>
        /\ outcome = "returned"
        /\ Len(ast.declarations) = 1
        /\ LET for == ast.declarations[1]
           IN  /\ for.node = "ForStatement"
               /\ for.init.node = "VariableDeclaration"
               /\ for.condition.node = "BinaryOp"
               /\ for.condition.op \in {"LT", "LTE", "GT", "GTE", "EQ", "NEQ"}
               /\ for.update.node = "BinaryOp"
               /\ for.update.left = IdentifierNode(PyStr("i"))
               /\ for.body = <<>>

\* C4: in a variable declaration, var ID followed by a token of a kind K
\* that is neither ASSIGN nor SEMICOLON raises the SyntaxError that expected
\* SEMICOLON and got K, and no node is returned.
C4_MissingAssign ==
    [][(/\ Running("variable_declaration") /\ Top.pc = "start"
        /\ consumed + 2 <= Len(tokens)
        /\ current_token.type = "VAR"
        /\ tokens[consumed + 1].type = "ID"
        /\ tokens[consumed + 2].type \notin {"ASSIGN", "SEMICOLON"})
       => (/\ outcome' = "SyntaxError"
           /\ error' = Expected("SEMICOLON", tokens[consumed + 2].type)
           /\ stack' = <<>>
           /\ ast' = NoneNode)]_vars

\* var x 5 ; has raised 'Expected SEMICOLON but got NUMBER'
C4_Witness ==
    /\ tokens = Toks(<<"VAR", "ID", "NUMBER", "SEMICOLON">>)
    /\ outcome = "SyntaxError"
    /\ error = Expected("SEMICOLON", "NUMBER")
    /\ consumed = 3

\* the characters no branch of generate_tokens takes
Unrecognized(c) ==
    ~ (c \in {" ", "\n", "\t", "_", "\""} \cup Digits \cup Letters
            \cup {"+", "-", "*", "/", "%", "(", ")", "{", "}", ";", ","}
            \cup {"=", "!", "<", ">"})

\* the double quotes of t before place i
QuotesBefore(t, i) == Cardinality({j \in 1..(i - 1) : t[j] = "\""})

\* the places of t that hold an unrecognized character
Offending(t) == {i \in 1..Len(t) : Unrecognized(t[i])}

\* the places of t that hold an unrecognized character outside string literals
OffendingOutside(t) == {i \in Offending(t) : QuotesBefore(t, i) % 2 = 0}

First(S) == CHOOSE i \in S : \A j \in S : i <= j

\* the lexer stopped on the character at place i, having yielded exactly the
\* tokens of the text before it
StoppedAt(i) ==
    /\ lex_status = "raised"
    /\ lex_error = text[i]
    /\ pos = i - 1
    /\ generate_tokens(SubSeq(text, 1, i - 1)).raise = None
    /\ yielded = generate_tokens(SubSeq(text, 1, i - 1)).tokens

\* C5 as stated: every source that contains an unrecognized character fails
\* at the first such character, naming it, after yielding exactly the tokens
\* of the text before it.
C5_FailsAtFirstUnrecognized ==
    (Lexed /\ Offending(text) # {}) => StoppedAt(First(Offending(text)))

\* C5 amended: every source in which an unrecognized character stands
\* outside a string literal fails at the first such character, naming it,
\* after yielding exactly the tokens of the text before it and none of the
\* text after it; a source with none is lexed to the end.
C5_FailsAtFirstOutsideString ==
    /\ (Lexed /\ OffendingOutside(text) # {}) =>
            StoppedAt(First(OffendingOutside(text)))
    /\ (Lexed /\ OffendingOutside(text) = {}) => lex_status = "exhausted"
    /\ (lex_status = "running" /\ OffendingOutside(text) # {}) =>
            pos < First(OffendingOutside(text))

\* "@"1#; stopped on the '#', with the STRING "@" and the NUMBER yielded
C5_Witness ==
    /\ lex_status = "raised"
    /\ Len(text) > pos + 1
    /\ Offending(text) # OffendingOutside(text)
    /\ Len(yielded) = 2

\* the two-character and the one-character token of each lookahead operator
TwoChar(c) ==
    CASE c = "=" -> "EQ" [] c = "!" -> "NEQ" [] c = "<" -> "LTE" [] c = ">" -> "GTE"

OneChar(c) ==
    CASE c = "=" -> "ASSIGN" [] c = "!" -> "NOT" [] c = "<" -> "LT" [] c = ">" -> "GT"

\* the character p places into t, None past its end
CharAt(t, p) == IF p < Len(t) THEN t[p + 1] ELSE None

\* C6: '=', '!', '<' or '>' followed by '=' yields the one two-character
\* token and consumes both characters; otherwise it yields the one-character
\* token, consumes one character and leaves the next (if any) to start the
\* next token, also at the end of the input.
C6_Lookahead ==
    [][(lex_status = "running" /\ current_char \in {"=", "!", "<", ">"}) =>
         IF CharAt(text, pos + 1) = "="
         THEN /\ yielded' = Append(yielded, Token(TwoChar(current_char),
                                                  PyStr(current_char \o "=")))
              /\ pos' = pos + 2
              /\ current_char' = CharAt(text, pos + 2)
              /\ lex_status' = "running"
         ELSE /\ yielded' = Append(yielded, Token(OneChar(current_char),
                                                  PyStr(current_char)))
              /\ pos' = pos + 1
              /\ current_char' = CharAt(text, pos + 1)
              /\ lex_status' = "running"]_vars

\* a source such as "==<" is lexed: a two-character token, then a
\* one-character token from the last character of the input
C6_Witness ==
    /\ lex_status = "exhausted"
    /\ Len(yielded) >= 2
    /\ text[Len(text)] \in {"=", "!", "<", ">"}
    /\ yielded[Len(yielded)].type \in {"ASSIGN", "NOT", "LT", "GT"}
    /\ yielded[Len(yielded) - 1].type \in {"EQ", "NEQ", "LTE", "GTE"}

RECURSIVE Join(_)
Join(chars) == IF chars = <<>> THEN "" ELSE Head(chars) \o Join(Tail(chars))

Quote(t) == {i \in 1..Len(t) : t[i] = "\""}

Last(S) == CHOOSE i \in S : \A j \in S : i >= j

\* t ends inside a string literal that the lexer gets to
Unterminated(t) == Cardinality(Quote(t)) % 2 = 1 /\ OffendingOutside(t) = {}

\* C7: when the input ends after an opening double quote that is never
\* closed, the lexer raises nothing: its last token is the STRING of the
\* characters after that quote, and it ends normally.
C7_UnterminatedString ==
    (Lexed /\ Unterminated(text)) =>
        /\ lex_status = "exhausted"
        /\ lex_error = None
        /\ yielded # <<>>
        /\ yielded[Len(yielded)] =
              Token("STRING",
                    PyStr(Join(SubSeq(text, Last(Quote(text)) + 1, Len(text)))))
        /\ Cardinality({i \in 1..Len(yielded) : yielded[i].type = "STRING"})
              = (Cardinality(Quote(text)) + 1) \div 2

\* a source such as a"b is lexed: an ID, then the STRING "b" cut by the end
C7_Witness ==
    /\ lex_status = "exhausted"
    /\ Unterminated(text)
    /\ Last(Quote(text)) < Len(text)
    /\ Len(yielded) = 2

\* the nodes a node holds directly
Children(n) ==
    CASE n.node = "Program" -> n.declarations
      [] n.node = "VariableDeclaration" -> <<n.value>>
      [] n.node = "FunctionDeclaration" -> n.body
      [] n.node = "ReturnStatement" -> <<n.expression>>
      [] n.node = "BinaryOp" -> <<n.left, n.right>>
      [] n.node = "UnaryOp" -> <<n.operand>>
      [] n.node = "IfStatement" -> <<n.condition>> \o n.if_body \o n.else_body
      [] n.node = "WhileStatement" -> <<n.condition>> \o n.body
      [] n.node = "ForStatement" -> <<n.init, n.condition, n.update>> \o n.body
      [] OTHER -> <<>>

\* whether the tree under n holds a node of that kind
RECURSIVE Holds(_, _)
Holds(n, kind) ==
    \/ n.node = kind
    \/ \E i \in 1..Len(Children(n)) : Holds(Children(n)[i], kind)

\* the node primary builds from an operand token
Leaf(token) ==
    CASE token.type = "NUMBER" -> NumberNode(token.value)
      [] token.type = "STRING" -> StringNode(token.value)
      [] token.type = "ID" -> IdentifierNode(token.value)

\* the token sequence is var x = a op1 b op2 c ; with both operators of one level
SameLevelChain ==
    /\ tokens \in Chains
    /\ \E level \in Levels : tokens[5].type \in level /\ tokens[7].type \in level

\* C8: every binary level is left-associative: the initializer of
\* var x = a op1 b op2 c; with op1 and op2 of one level is
\* BinaryOp(op2, BinaryOp(op1, a, b), c).
C8_LeftAssociative ==
    (Finished /\ SameLevelChain) =>
        /\ outcome = "returned"
        /\ ast = ProgramNode(<<VariableDeclarationNode(tokens[2].value,
                    BinaryOpNode(tokens[7].type,
                        BinaryOpNode(tokens[5].type, Leaf(tokens[4]),
                                     Leaf(tokens[6])),
                        Leaf(tokens[8])))>>)

\* var x = a - "s" + 3 ; has been parsed
C8_Witness ==
    /\ outcome = "returned"
    /\ SameLevelChain
    /\ tokens[5].type = "SUB" /\ tokens[7].type = "ADD"
    /\ tokens[4].type = "ID" /\ tokens[6].type = "STRING"
    /\ tokens[8].type = "NUMBER"

\* the rules a statement that starts an expression goes down through
Descent == <<"declaration", "expression", "expression_logical",
             "expression_relational", "expression_additive",
             "expression_multiplicative", "expression_unary", "primary">>

\* the parse is entering the d-th of these rules at a RETURN token
Descending(d) ==
    /\ Running(Descent[d]) /\ Top.pc = "start"
    /\ current_token.type = "RETURN"

LoopPcs == {"append", "body", "if_body", "else_body"}

\* the generator and the parser have both stopped
Stopped == lex_status # "running" /\ outcome # "running"

\* a running lexer moves forward, by one pass at most, or stops where it is
LexerAdvances ==
    (lex_status = "running") =>
        \/ pos' > pos /\ pos' <= Len(text) + 1 /\ lex_status' = "running"
        \/ pos' = pos /\ lex_status' \in {"exhausted", "raised"}

\* a running parser only moves forward through the tokens it was handed
ParserAdvances ==
    (outcome = "running") =>
        /\ consumed' >= consumed
        /\ consumed' <= Len(tokens)
        /\ tokens' = tokens
        /\ current_token' = NoToken \/ current_token' = tokens[consumed']

\* a loop gets control back only with a token consumed since its iteration began
LoopAdvances ==
    (outcome' = "running" /\ Top'.pc \in LoopPcs) => (consumed' > Top'.at)

\* C10: the lexer ends after at most one pass, its position never
\* decreasing; the parser never takes a token twice, every iteration of the
\* program loop and of a block loop consumes a token or aborts the parse,
\* and every run stops.
C10_Terminates ==
    /\ [][LexerAdvances /\ ParserAdvances /\ LoopAdvances]_vars
    /\ <>Stopped

\* a while loop with two statements in its body has been parsed to the end
C10_Witness ==
    /\ outcome = "returned"
    /\ consumed = Len(tokens)
    /\ Len(ast.declarations) = 1
    /\ ast.declarations[1].node = "WhileStatement"
    /\ Len(ast.declarations[1].body) = 2

====
